---- MODULE Spec2Model ----
(***************************************************************************)
(* Model of the calculation engine of the nutrition calculator:            *)
(* calculateAll(input: ProfileInput): Results  (src/unnamed/part_002).     *)
(*                                                                         *)
(* JavaScript numbers are modelled as exact rationals (plus NaN and        *)
(* undefined), so every product, sum, comparison and Math.round below is   *)
(* computed, not assumed.  A rational is num / (10^dec * 9^e9 * Lb^eLb),   *)
(* where num is an arbitrary-precision integer (a sequence of limbs) and   *)
(* Lb = 45359237 is the integer of the pound factor 0.45359237: these are  *)
(* the only denominators the program's constants and divisions produce.    *)
(* Floating-point rounding error of the IEEE doubles is not modelled.      *)
(***************************************************************************)
EXTENDS Integers, Sequences, FiniteSets, TLC

(***************************************************************************)
(* Arbitrary-precision integers: little-endian sequences of limbs.  Every  *)
(* limb but the last is in 0..Base-1; the last carries the sign.           *)
(***************************************************************************)
Base == 10000

RECURSIVE Final(_)
Final(c) ==
    IF c = 0 THEN <<>>
    ELSE IF c > -Base /\ c < Base THEN <<c>>
    ELSE <<c % Base>> \o Final(c \div Base)

\* Carry propagation over the limbs lo..hi of s with carry-in c, by halves: the
\* limbs in 0..Base-1 and the carry out.
RECURSIVE CarryRange(_, _, _, _)
CarryRange(s, lo, hi, c) ==
    IF lo = hi
    THEN [limbs |-> <<(s[lo] + c) % Base>>, carry |-> (s[lo] + c) \div Base]
    ELSE LET mid  == (lo + hi) \div 2
             low  == CarryRange(s, lo, mid, c)
             high == CarryRange(s, mid + 1, hi, low.carry)
         IN  [limbs |-> low.limbs \o high.limbs, carry |-> high.carry]

Carry(s, c) ==
    IF s = <<>> THEN Final(c)
    ELSE LET r == CarryRange(s, 1, Len(s), c)
         IN  r.limbs \o Final(r.carry)

\* The canonical form: no leading zero limb, and a top limb of -1 is folded into
\* the limb below it, so that equal integers are equal sequences.
RECURSIVE Trim(_)
Trim(s) ==
    IF s = <<>> THEN s
    ELSE IF s[Len(s)] = 0 THEN Trim(SubSeq(s, 1, Len(s) - 1))
    ELSE IF Len(s) >= 2 /\ s[Len(s)] = -1 /\ s[Len(s) - 1] > 0
         THEN Trim([i \in 1..(Len(s) - 1) |->
                        IF i = Len(s) - 1 THEN s[i] - Base ELSE s[i]])
    ELSE s

Norm(s) == Trim(Carry(s, 0))

FromInt(v) == Final(v)

Limb(a, i) == IF i <= Len(a) THEN a[i] ELSE 0

MaxOf(a, b) == IF a > b THEN a ELSE b

BAdd(a, b) == Norm([i \in 1..MaxOf(Len(a), Len(b)) |-> Limb(a, i) + Limb(b, i)])

BSub(a, b) == Norm([i \in 1..MaxOf(Len(a), Len(b)) |-> Limb(a, i) - Limb(b, i)])

BMulSmall(a, m) == Norm([i \in 1..Len(a) |-> a[i] * m])

MinOf(a, b) == IF a < b THEN a ELSE b

\* The sum of a[i] * b[k - i + 1] for i in lo..hi, by halves.
RECURSIVE ConvSum(_, _, _, _, _)
ConvSum(a, b, k, lo, hi) ==
    IF lo > hi THEN 0
    ELSE IF lo = hi THEN a[lo] * b[k - lo + 1]
    ELSE ConvSum(a, b, k, lo, (lo + hi) \div 2)
         + ConvSum(a, b, k, (lo + hi) \div 2 + 1, hi)

BMul(a, b) ==
    IF a = <<>> \/ b = <<>> THEN <<>>
    ELSE Norm([k \in 1..(Len(a) + Len(b) - 1) |->
                  ConvSum(a, b, k, MaxOf(1, k - Len(b) + 1), MinOf(Len(a), k))])

Sign(a) == IF a = <<>> THEN 0 ELSE IF a[Len(a)] < 0 THEN -1 ELSE 1

\* m^e for a small m (m * Base fits a machine integer), by squaring.
RECURSIVE BPow(_, _)
BPow(m, e) ==
    IF e = 0 THEN <<1>>
    ELSE IF e % 2 = 1 THEN BMulSmall(BPow(m, e - 1), m)
    ELSE LET h == BPow(m, e \div 2) IN BMul(h, h)

\* Division of the limbs hi..lo of a by a small d > 0 with remainder r carried in
\* from above, by halves: the quotient limbs and the remainder.
RECURSIVE DivRange(_, _, _, _, _)
DivRange(a, d, lo, hi, r) ==
    IF lo = hi
    THEN [limbs |-> <<(r * Base + a[lo]) \div d>>, rem |-> (r * Base + a[lo]) % d]
    ELSE LET mid  == (lo + hi) \div 2
             high == DivRange(a, d, mid + 1, hi, r)
             low  == DivRange(a, d, lo, mid, high.rem)
         IN  [limbs |-> low.limbs \o high.limbs, rem |-> low.rem]

\* floor(a / d) for a small d > 0.
ShortDiv(a, d) ==
    IF a = <<>> THEN a ELSE Trim(DivRange(a, d, 1, Len(a), 0).limbs)

\* floor(a / d^e): floor division by a product is floor division by its factors
\* in turn.
RECURSIVE DivPow(_, _, _)
DivPow(a, d, e) ==
    IF e = 0 \/ a = <<>> THEN a ELSE DivPow(ShortDiv(a, d), d, e - 1)

\* floor(a / 10^e), four decimal places at a time.
RECURSIVE DivPow10(_, _)
DivPow10(a, e) ==
    IF a = <<>> THEN a
    ELSE IF e >= 4 THEN DivPow10(ShortDiv(a, 10000), e - 4)
    ELSE DivPow(a, 10, e)

(***************************************************************************)
(* JavaScript values of type number | undefined.                           *)
(***************************************************************************)
LbFactor == 45359237

Rat(n, d, t, k) == [tag |-> "number", num |-> n, dec |-> d, e9 |-> t, eLb |-> k]

\* The decimal literal v * 10^-d, e.g. Dec(13397, 3) is 13.397.
Dec(v, d) == Rat(FromInt(v), d, 0, 0)

Num(v) == Dec(v, 0)

NaN == [tag |-> "NaN", num |-> <<>>, dec |-> 0, e9 |-> 0, eLb |-> 0]

Undefined == [tag |-> "undefined", num |-> <<>>, dec |-> 0, e9 |-> 0, eLb |-> 0]

IsNumber(x) == x.tag = "number"

\* 45359237^k, and floor(a / 45359237^k) by the factors 7469 * 6073 = 45359237.
RECURSIVE LbPow(_)
LbPow(k) == IF k = 0 THEN <<1>> ELSE BMul(LbPow(k - 1), FromInt(LbFactor))

DivLbPow(a, k) == DivPow(DivPow(a, 7469, k), 6073, k)

\* 10^d * 9^t * 45359237^k.
Scale(d, t, k) == BMul(BMul(BPow(10, d), BPow(9, t)), LbPow(k))

\* The denominator of x as an integer.
Den(x) == Scale(x.dec, x.e9, x.eLb)

\* The numerator of x over the denominator 10^d * 9^t * Lb^k (d, t, k at least x's).
NumOver(x, d, t, k) ==
    IF d = x.dec /\ t = x.e9 /\ k = x.eLb THEN x.num
    ELSE BMul(x.num, Scale(d - x.dec, t - x.e9, k - x.eLb))

\* x + y, x - y, x * y of JavaScript: NaN when an operand is NaN or undefined.
Add(x, y) ==
    IF ~IsNumber(x) \/ ~IsNumber(y) THEN NaN
    ELSE LET d == MaxOf(x.dec, y.dec)
             t == MaxOf(x.e9, y.e9)
             k == MaxOf(x.eLb, y.eLb)
         IN  Rat(BAdd(NumOver(x, d, t, k), NumOver(y, d, t, k)), d, t, k)

Sub(x, y) ==
    IF ~IsNumber(x) \/ ~IsNumber(y) THEN NaN
    ELSE LET d == MaxOf(x.dec, y.dec)
             t == MaxOf(x.e9, y.e9)
             k == MaxOf(x.eLb, y.eLb)
         IN  Rat(BSub(NumOver(x, d, t, k), NumOver(y, d, t, k)), d, t, k)

Mul(x, y) ==
    IF ~IsNumber(x) \/ ~IsNumber(y) THEN NaN
    ELSE Rat(BMul(x.num, y.num), x.dec + y.dec, x.e9 + y.e9, x.eLb + y.eLb)

\* x / c for the divisors the program uses: 2, 4, 9, 100 and 0.45359237.
Div(x, c) ==
    IF ~IsNumber(x) THEN NaN
    ELSE CASE c = Num(2)   -> Rat(BMulSmall(x.num, 5), x.dec + 1, x.e9, x.eLb)
           [] c = Num(4)   -> Rat(BMulSmall(x.num, 25), x.dec + 2, x.e9, x.eLb)
           [] c = Num(100) -> Rat(x.num, x.dec + 2, x.e9, x.eLb)
           [] c = Num(9)   -> Rat(x.num, x.dec, x.e9 + 1, x.eLb)
           [] c = Dec(LbFactor, 8) ->
                  Rat(BMul(x.num, BPow(10, 8)), x.dec, x.e9, x.eLb + 1)

\* The sign of x - y for two numbers.
Cmp(x, y) == Sign(Sub(x, y).num)

\* x < y of JavaScript: false when an operand is NaN or undefined.
Less(x, y) == IsNumber(x) /\ IsNumber(y) /\ Cmp(x, y) < 0

\* JavaScript truthiness of a number | undefined: 0, NaN and undefined are falsy.
Truthy(x) == IsNumber(x) /\ Sign(x.num) # 0

\* x != null
NotNull(x) == x.tag # "undefined"

\* Math.round(x): floor(x + 1/2) = floor((2 num + den) / (2 den)); NaN for NaN
\* and undefined.
MathRound(x) ==
    IF ~IsNumber(x) THEN NaN
    ELSE Rat(DivLbPow(DivPow(DivPow10(ShortDiv(BAdd(BMulSmall(x.num, 2), Den(x)), 2),
                                      x.dec),
                             9, x.e9),
                      x.eLb),
             0, 0, 0)

(***************************************************************************)
(* The program: src/unnamed/part_002.                                      *)
(***************************************************************************)
round(n) == MathRound(n)

lbToKg(lb) == Mul(lb, Dec(LbFactor, 8))

inToCm(inches) == Mul(inches, Dec(254, 2))

\* Mutant of weightKgOf: a kilogram weight is used whenever one is present.
weightKgPreferringKg(input) ==
    IF NotNull(input.weight.kg) THEN input.weight.kg ELSE lbToKg(input.weight.lb)

weightKgOf(input) ==
    IF input.unitSystem = "us" THEN lbToKg(input.weight.lb) ELSE input.weight.kg

heightCmOf(input) ==
    IF input.unitSystem = "us" THEN inToCm(input.height.inches) ELSE input.height.cm

\* Mutant of bodyComposition: the percentage derivation no longer tests bodyFatMode.
bodyCompositionIgnoringMode(input, weightKg) ==
    LET fat0  == IF input.dexa.enabled THEN input.dexa.fatMassKg ELSE Undefined
        lean0 == IF input.dexa.enabled THEN input.dexa.leanMassKg ELSE Undefined
        fat1  == Mul(weightKg, Div(input.bodyFatPercent, Num(100)))
    IN  IF (~Truthy(fat0) \/ ~Truthy(lean0)) /\ NotNull(input.bodyFatPercent)
        THEN [fatMassKg |-> fat1, leanMassKg |-> Sub(weightKg, fat1)]
        ELSE [fatMassKg |-> fat0, leanMassKg |-> lean0]

\* Mutant of bodyComposition: the DEXA masses are read without testing dexa.enabled.
bodyCompositionIgnoringEnabled(input, weightKg) ==
    LET fat0  == input.dexa.fatMassKg
        lean0 == input.dexa.leanMassKg
        fat1  == Mul(weightKg, Div(input.bodyFatPercent, Num(100)))
    IN  IF (~Truthy(fat0) \/ ~Truthy(lean0))
           /\ input.bodyFatMode = "known"
           /\ NotNull(input.bodyFatPercent)
        THEN [fatMassKg |-> fat1, leanMassKg |-> Sub(weightKg, fat1)]
        ELSE [fatMassKg |-> fat0, leanMassKg |-> lean0]

\* Lines 66-82: the resolved <<fatMassKg, leanMassKg>>.
bodyComposition(input, weightKg) ==
    LET fat0  == IF input.dexa.enabled THEN input.dexa.fatMassKg ELSE Undefined
        lean0 == IF input.dexa.enabled THEN input.dexa.leanMassKg ELSE Undefined
        fat1  == Mul(weightKg, Div(input.bodyFatPercent, Num(100)))
    IN  IF (~Truthy(fat0) \/ ~Truthy(lean0))
           /\ input.bodyFatMode = "known"
           /\ NotNull(input.bodyFatPercent)
        THEN [fatMassKg |-> fat1, leanMassKg |-> Sub(weightKg, fat1)]
        ELSE [fatMassKg |-> fat0, leanMassKg |-> lean0]

mifflinOf(input, weightKg, heightCm) ==
    Add(Sub(Add(Mul(Num(10), weightKg), Mul(Dec(625, 2), heightCm)),
            Mul(Num(5), input.ageYears)),
        IF input.sex = "male" THEN Num(5) ELSE Num(-161))

revisedHarrisBenedictOf(input, weightKg, heightCm) ==
    IF input.sex = "male"
    THEN Sub(Add(Add(Dec(88362, 3), Mul(Dec(13397, 3), weightKg)),
                 Mul(Dec(4799, 3), heightCm)),
             Mul(Dec(5677, 3), input.ageYears))
    ELSE Sub(Add(Add(Dec(447593, 3), Mul(Dec(9247, 3), weightKg)),
                 Mul(Dec(3098, 3), heightCm)),
             Mul(Dec(433, 2), input.ageYears))

katchMcArdleOf(leanMassKg) ==
    IF NotNull(leanMassKg) THEN Add(Num(370), Mul(Dec(216, 1), leanMassKg))
    ELSE Undefined

nelsonOf(fatMassKg, leanMassKg) ==
    IF NotNull(fatMassKg) /\ NotNull(leanMassKg)
    THEN Add(Mul(Dec(258, 1), leanMassKg), Mul(Dec(404, 2), fatMassKg))
    ELSE Undefined

mullerOf(fatMassKg, leanMassKg) ==
    IF NotNull(fatMassKg) /\ NotNull(leanMassKg)
    THEN Add(Add(Mul(Dec(13587, 3), leanMassKg), Mul(Dec(9613, 3), fatMassKg)),
             Num(198))
    ELSE Undefined

\* Mutant of recommendedBmrOf: Katch-McArdle is preferred whatever bodyFatMode is.
recommendedBmrIgnoringMode(input, katchMcArdle, mifflin, revisedHarrisBenedict) ==
    IF NotNull(katchMcArdle)
    THEN katchMcArdle
    ELSE Div(Add(mifflin, revisedHarrisBenedict), Num(2))

recommendedBmrOf(input, katchMcArdle, mifflin, revisedHarrisBenedict) ==
    IF input.bodyFatMode = "known" /\ NotNull(katchMcArdle)
    THEN katchMcArdle
    ELSE Div(Add(mifflin, revisedHarrisBenedict), Num(2))

\* Mutant of activityMultiplierOf: the preset is used whatever useCustom is.
activityMultiplierPresetOnly(input) == input.activity.preset

activityMultiplierOf(input) ==
    IF input.activity.useCustom THEN input.activity.customMultiplier
    ELSE input.activity.preset

tdeeOf(recommendedBmr, activityMultiplier) == Mul(recommendedBmr, activityMultiplier)

FatWarning == "Fat intake is below 50 g/day."

\* Mutant of makeMacros: the warning is also pushed at exactly 50 g.
makeMacrosWarningAtFifty(warnings, calories, proteinG, fatPercent) ==
    LET fatCalories == Mul(calories, fatPercent)
        fatG == Div(fatCalories, Num(9))
        remainingCalories ==
            Sub(Sub(calories, Mul(proteinG, Num(4))), Mul(fatG, Num(9)))
        carbsG == Div(remainingCalories, Num(4))
    IN  [warnings |-> IF IsNumber(fatG) /\ Cmp(fatG, Num(50)) <= 0
                      THEN Append(warnings, FatWarning)
                      ELSE warnings,
         targets  |-> [calories |-> round(calories),
                       proteinG |-> round(proteinG),
                       fatG     |-> round(fatG),
                       carbsG   |-> round(carbsG)]]

\* Mutant of makeMacros: the fat calories are not taken off the remaining calories.
makeMacrosFatNotDeducted(warnings, calories, proteinG, fatPercent) ==
    LET fatCalories == Mul(calories, fatPercent)
        fatG == Div(fatCalories, Num(9))
        remainingCalories == Sub(calories, Mul(proteinG, Num(4)))
        carbsG == Div(remainingCalories, Num(4))
    IN  [warnings |-> IF Less(fatG, Num(50)) THEN Append(warnings, FatWarning)
                      ELSE warnings,
         targets  |-> [calories |-> round(calories),
                       proteinG |-> round(proteinG),
                       fatG     |-> round(fatG),
                       carbsG   |-> round(carbsG)]]

\* Mutant of makeMacros: negative carbohydrate grams are replaced by 0.
makeMacrosClampedCarbs(warnings, calories, proteinG, fatPercent) ==
    LET fatCalories == Mul(calories, fatPercent)
        fatG == Div(fatCalories, Num(9))
        remainingCalories ==
            Sub(Sub(calories, Mul(proteinG, Num(4))), Mul(fatG, Num(9)))
        carbsG == Div(remainingCalories, Num(4))
    IN  [warnings |-> IF Less(fatG, Num(50)) THEN Append(warnings, FatWarning)
                      ELSE warnings,
         targets  |-> [calories |-> round(calories),
                       proteinG |-> round(proteinG),
                       fatG     |-> round(fatG),
                       carbsG   |-> IF Less(carbsG, Num(0)) THEN Num(0)
                                    ELSE round(carbsG)]]

\* Lines 130-153.  The closure pushes on the call's warnings array: the array is
\* passed in and handed back with the targets.
makeMacros(warnings, calories, proteinG, fatPercent) ==
    LET fatCalories == Mul(calories, fatPercent)
        fatG == Div(fatCalories, Num(9))
        remainingCalories ==
            Sub(Sub(calories, Mul(proteinG, Num(4))), Mul(fatG, Num(9)))
        carbsG == Div(remainingCalories, Num(4))
    IN  [warnings |-> IF Less(fatG, Num(50)) THEN Append(warnings, FatWarning)
                      ELSE warnings,
         targets  |-> [calories |-> round(calories),
                       proteinG |-> round(proteinG),
                       fatG     |-> round(fatG),
                       carbsG   |-> round(carbsG)]]

\* An optional method value of the returned breakdown (lines 193-195).
methodValue(v) == IF Truthy(v) THEN round(v) ELSE Undefined

\* Mutant of goalArguments: a negative calorie base is clamped to 0.
goalArgumentsClamped(input, tdee, weightLb) ==
    LET AtLeastZero(x) == IF Less(x, Num(0)) THEN Num(0) ELSE x
    IN  [maintenance |-> [calories |-> AtLeastZero(tdee),
                          proteinG |-> Mul(weightLb, Dec(10, 1)),
                          fatPercent |-> Dec(25, 2)],
         cut         |-> [calories |-> AtLeastZero(Add(tdee, input.deltas.cut)),
                          proteinG |-> Mul(weightLb, Dec(10, 1)),
                          fatPercent |-> Dec(25, 2)],
         recomp      |-> [calories |-> AtLeastZero(Add(tdee, input.deltas.recomp)),
                          proteinG |-> Mul(weightLb, Dec(10, 1)),
                          fatPercent |-> Dec(2, 1)],
         bulk        |-> [calories |-> AtLeastZero(Add(tdee, input.deltas.bulk)),
                          proteinG |-> Mul(weightLb, input.bulkProteinGPerLb),
                          fatPercent |-> Dec(3, 1)]]

\* Lines 155-183: the arguments of the four makeMacros calls.
goalArguments(input, tdee, weightLb) ==
    [maintenance |-> [calories |-> tdee,
                      proteinG |-> Mul(weightLb, Dec(10, 1)),
                      fatPercent |-> Dec(25, 2)],
     cut         |-> [calories |-> Add(tdee, input.deltas.cut),
                      proteinG |-> Mul(weightLb, Dec(10, 1)),
                      fatPercent |-> Dec(25, 2)],
     recomp      |-> [calories |-> Add(tdee, input.deltas.recomp),
                      proteinG |-> Mul(weightLb, Dec(10, 1)),
                      fatPercent |-> Dec(2, 1)],
     bulk        |-> [calories |-> Add(tdee, input.deltas.bulk),
                      proteinG |-> Mul(weightLb, input.bulkProteinGPerLb),
                      fatPercent |-> Dec(3, 1)]]

\* The call, section by section of the source.  Each section extends the record
\* of the local constants computed so far.

VARIABLE
    log         \* the arguments and returned values of the calls made before

\* A warnings array kept by the module from one call to the next.
warningsKeptFromLastCall ==
    IF log = <<>> THEN <<>> ELSE log[Len(log)].results.warnings

\* Line 49: the warnings array, created by each call.
newWarnings == <<>>

\* Lines 51-62.
normalizeUnits(input) ==
    [weightKg |-> weightKgOf(input), heightCm |-> heightCmOf(input)]

\* Line 57.
withWeightLb(l) == l @@ [weightLb |-> Div(l.weightKg, Dec(LbFactor, 8))]

\* Lines 66-82.
withBodyComposition(input, l) == l @@ bodyComposition(input, l.weightKg)

\* Lines 84-108.
withBmrFormulas(input, l) ==
    l @@ [mifflin |-> mifflinOf(input, l.weightKg, l.heightCm),
          revisedHarrisBenedict |->
              revisedHarrisBenedictOf(input, l.weightKg, l.heightCm),
          katchMcArdle |-> katchMcArdleOf(l.leanMassKg),
          nelson |-> nelsonOf(l.fatMassKg, l.leanMassKg),
          muller |-> mullerOf(l.fatMassKg, l.leanMassKg)]

\* Lines 110-122.
withRecommendedBmr(input, l) ==
    l @@ [recommendedBmr |->
              recommendedBmrOf(input, l.katchMcArdle, l.mifflin,
                               l.revisedHarrisBenedict),
          activityMultiplier |-> activityMultiplierOf(input)]

\* Line 124, and the arguments of the makeMacros calls.
withTdee(l) == l @@ [tdee |-> tdeeOf(l.recommendedBmr, l.activityMultiplier)]

withGoalArguments(input, l) ==
    l @@ [args |-> goalArguments(input, l.tdee, l.weightLb)]

\* Lines 155-183: the four goals in the order of the source, each call pushing
\* on the warnings left by the one before.
withMaintenance(l) ==
    l @@ [maintenance |-> makeMacros(newWarnings, l.args.maintenance.calories,
                                     l.args.maintenance.proteinG,
                                     l.args.maintenance.fatPercent)]

withCut(l) ==
    l @@ [cut |-> makeMacros(l.maintenance.warnings, l.args.cut.calories,
                             l.args.cut.proteinG, l.args.cut.fatPercent)]

withRecomp(l) ==
    l @@ [recomp |-> makeMacros(l.cut.warnings, l.args.recomp.calories,
                                l.args.recomp.proteinG, l.args.recomp.fatPercent)]

withBulk(l) ==
    l @@ [bulk |-> makeMacros(l.recomp.warnings, l.args.bulk.calories,
                              l.args.bulk.proteinG, l.args.bulk.fatPercent)]

\* Lines 187-204: the return statement.
returnStatement(l) ==
    [locals |-> l,
     returned |->
        [bmr |-> [recommendedBmr |-> round(l.recommendedBmr),
                  methods |->
                     [mifflin |-> round(l.mifflin),
                      revisedHarrisBenedict |-> round(l.revisedHarrisBenedict),
                      katchMcArdle |-> methodValue(l.katchMcArdle),
                      nelson |-> methodValue(l.nelson),
                      muller |-> methodValue(l.muller)]],
         tdee |-> round(l.tdee),
         maintenance |-> l.maintenance.targets,
         cut |-> l.cut.targets,
         bulk |-> l.bulk.targets,
         recomp |-> l.recomp.targets,
         warnings |-> l.bulk.warnings]]

\* The whole call: its local constants at the return statement and the value
\* returned.
calculateAllFrame(input) ==
    returnStatement(
      withBulk(withRecomp(withCut(withMaintenance(
        withGoalArguments(input,
          withTdee(withRecommendedBmr(input,
            withBmrFormulas(input,
              withBodyComposition(input,
                withWeightLb(normalizeUnits(input))))))))))))

calculateAll(input) == calculateAllFrame(input).returned

\* A call that writes the normalised weight and height back into its argument.
argumentNormalizedInPlace(input) ==
    [input EXCEPT !.weight.kg = weightKgOf(input), !.height.cm = heightCmOf(input)]

\* Lines 48-205: the argument as the call leaves it.  The body reads input and
\* its nested records and assigns to none of them.
argumentAfterCall(input) == input

(***************************************************************************)
(* The inputs the calls are made with.                                     *)
(***************************************************************************)
\* Body-fat percentages 0, 20, ... and ages 30, 50, ... tried.
MaxBodyFatStep == 1

MaxAgeStep == 0

UnitSystems == {"us", "metric"}

Sexes == {"male", "female"}

BodyFatModes == {"known", "unknown"}

Ages == {Num(30 + 20 * i) : i \in 0..MaxAgeStep}

BodyFatPercents == {Undefined} \cup {Num(20 * i) : i \in 0..MaxBodyFatStep}

\* height and weight records: the selected system's field alone, both systems'
\* fields, or the selected field missing.
Heights(u, tall) ==
    LET inches == IF tall THEN Num(70) ELSE Num(63)
        cm     == IF tall THEN Num(178) ELSE Num(160)
    IN  [only    |-> IF u = "us" THEN [cm |-> Undefined, inches |-> inches]
                     ELSE [cm |-> cm, inches |-> Undefined],
         both    |-> [cm |-> cm, inches |-> inches],
         missing |-> IF u = "us" THEN [cm |-> cm, inches |-> Undefined]
                     ELSE [cm |-> Undefined, inches |-> inches]]

Weights(u, heavy) ==
    LET lb == IF heavy THEN Num(180) ELSE Num(110)
        kg == IF heavy THEN Num(80) ELSE Num(50)
    IN  [only    |-> IF u = "us" THEN [kg |-> Undefined, lb |-> lb]
                     ELSE [kg |-> kg, lb |-> Undefined],
         both    |-> [kg |-> kg, lb |-> lb],
         missing |-> IF u = "us" THEN [kg |-> kg, lb |-> Undefined]
                     ELSE [kg |-> Undefined, lb |-> lb]]

Shapes == {"only", "both", "missing"}

Activities ==
    {[preset |-> Dec(155, 2), useCustom |-> FALSE, customMultiplier |-> Undefined],
     [preset |-> Dec(12, 1), useCustom |-> FALSE, customMultiplier |-> Undefined],
     [preset |-> Undefined, useCustom |-> TRUE, customMultiplier |-> Dec(1375, 3)],
     [preset |-> Dec(19, 1), useCustom |-> TRUE, customMultiplier |-> Dec(12, 1)],
     [preset |-> Dec(19, 1), useCustom |-> FALSE, customMultiplier |-> Dec(12, 1)],
     [preset |-> Undefined, useCustom |-> FALSE, customMultiplier |-> Dec(12, 1)],
     [preset |-> Dec(155, 2), useCustom |-> TRUE, customMultiplier |-> Undefined]}

DefaultActivity ==
    [preset |-> Dec(155, 2), useCustom |-> FALSE, customMultiplier |-> Undefined]

DefaultDeltas == [cut |-> Num(-500), bulk |-> Num(500), recomp |-> Num(-200)]

Deltas ==
    {DefaultDeltas,
     [cut |-> Num(60), bulk |-> Num(0), recomp |-> Num(-5000)],
     [cut |-> Num(-781), bulk |-> Num(-900), recomp |-> Num(-1740)]}

BulkProteins == {Dec(10, 1), Dec(7, 1)}

DexaMasses(v) == {Undefined, Num(0), Num(v)}

\* The last record has a Nelson value of exactly 0 (25.8 * -4.04 + 4.04 * 25.8).
Dexas ==
    {[enabled |-> e, fatMassKg |-> f, leanMassKg |-> l] :
        e \in BOOLEAN, f \in DexaMasses(15), l \in DexaMasses(50)}
    \cup {[enabled |-> TRUE, fatMassKg |-> Dec(258, 1), leanMassKg |-> Dec(-404, 2)]}

NoDexa == [enabled |-> FALSE, fatMassKg |-> Undefined, leanMassKg |-> Undefined]

ProfileInput(u, s, age, h, w, bm, bf, act, d, bp, dx) ==
    [unitSystem |-> u, sex |-> s, ageYears |-> age, height |-> h, weight |-> w,
     bodyFatMode |-> bm, bodyFatPercent |-> bf, activity |-> act, deltas |-> d,
     bulkProteinGPerLb |-> bp, dexa |-> dx]

\* Body composition: every combination of mode, percentage and DEXA record.
CompositionInputs ==
    {ProfileInput(u, s, age, Heights(u, TRUE).only, Weights(u, TRUE).only, bm, bf,
                  DefaultActivity, DefaultDeltas, Dec(10, 1), dx) :
        u \in UnitSystems, s \in Sexes, age \in Ages, bm \in BodyFatModes,
        bf \in BodyFatPercents, dx \in Dexas}

\* Presence of the unit-paired fields and of the activity sources.
PresenceInputs ==
    {ProfileInput(u, "male", Num(30), Heights(u, TRUE)[hs], Weights(u, TRUE)[ws],
                  bm, Num(20), act, DefaultDeltas, Dec(10, 1), NoDexa) :
        u \in UnitSystems, hs \in Shapes, ws \in Shapes, bm \in BodyFatModes,
        act \in Activities}

\* The goals: calorie bases, protein targets and fat warnings.
GoalInputs ==
    {ProfileInput(u, s, Num(30), Heights(u, big).only, Weights(u, big).only,
                  bm, Num(20), act, d, bp,
                  [enabled |-> bm = "known", fatMassKg |-> Num(15),
                   leanMassKg |-> Num(50)]) :
        u \in UnitSystems, s \in {"female"}, big \in BOOLEAN, bm \in BodyFatModes,
        act \in Activities, d \in Deltas, bp \in BulkProteins}

Inputs == CompositionInputs \cup PresenceInputs \cup GoalInputs

\* The calls of a sequence of calls: one profile at two sizes, two activity
\* levels and the three delta records, giving 0, 1, 2 or 3 warnings.
CallInputs ==
    {ProfileInput("us", "female", Num(30), Heights("us", big).only,
                  Weights("us", big).only, "known", Num(20), act, d, Dec(10, 1),
                  [enabled |-> TRUE, fatMassKg |-> Num(15), leanMassKg |-> Num(50)]) :
        big \in BOOLEAN, d \in Deltas,
        act \in {[preset |-> Dec(12, 1), useCustom |-> FALSE,
                  customMultiplier |-> Undefined],
                 [preset |-> Dec(19, 1), useCustom |-> FALSE,
                  customMultiplier |-> Dec(12, 1)]}}

\* The number of calls in a sequence of calls.
MaxCalls == 2

(***************************************************************************)
(* State: calls of calculateAll.                                           *)
(***************************************************************************)
VARIABLES
    input,      \* the argument of the call
    pc,         \* "ready" before the call, "returned" after it
    locals,     \* the call's local constants at its return statement
    results,    \* the value returned
    values,     \* form values: the argument of safeParse, the form's state
    parsed,     \* the value safeParse returned
    engine      \* the module the page's import of calculateAll resolves to

vars == <<input, pc, locals, results, log, values, parsed, engine>>

NoValue == "none"

Init ==
    /\ input \in Inputs
    /\ pc = "ready"
    /\ locals = NoValue
    /\ results = NoValue
    /\ log = <<>>
    /\ values = NoValue
    /\ parsed = NoValue
    /\ engine = NoValue

\* calculateAll(input) runs to its return statement; no statement of it throws.
CalculateAll ==
    /\ pc = "ready"
    /\ \E frame \in {calculateAllFrame(input)} :
           /\ locals' = frame.locals
           /\ results' = frame.returned
    /\ pc' = "returned"
    /\ input' = argumentAfterCall(input)
    /\ UNCHANGED <<log, values, parsed, engine>>

Next == CalculateAll

Spec == Init /\ [][Next]_vars

\* A sequence of calls: after a call has returned the caller calls again, with
\* any input.
InitCalls ==
    /\ input \in CallInputs
    /\ pc = "ready"
    /\ locals = NoValue
    /\ results = NoValue
    /\ log = <<>>
    /\ values = NoValue
    /\ parsed = NoValue
    /\ engine = NoValue

NextCall ==
    /\ pc = "returned"
    /\ Len(log) < MaxCalls - 1
    /\ log' = Append(log, [input |-> input, results |-> results])
    /\ input' \in CallInputs
    /\ pc' = "ready"
    /\ locals' = NoValue
    /\ results' = NoValue
    /\ UNCHANGED <<values, parsed, engine>>

NextCalls == CalculateAll \/ NextCall

SpecCalls == InitCalls /\ [][NextCalls]_vars

(***************************************************************************)
(* The preconditions of the engine, as the form schema enforces them       *)
(* (src/lib/schema.ts, superRefine): the selected height and weight are    *)
(* positive, a known body-fat mode has a percentage (clamped to 0..80 by   *)
(* toProfileInput), the selected activity source is a number, an enabled   *)
(* DEXA record has a positive mass, the bulk protein target is in          *)
(* 0.7..1.0.  Fields the engine does not read are not constrained.         *)
(***************************************************************************)
(***************************************************************************)
(* The form schema and the conversion: src/lib/schema.ts.                  *)
(***************************************************************************)
\* Math.min and Math.max: NaN when an operand is not a number.
mathMin(a, b) ==
    IF ~IsNumber(a) \/ ~IsNumber(b) THEN NaN ELSE IF Cmp(a, b) <= 0 THEN a ELSE b

mathMax(a, b) ==
    IF ~IsNumber(a) \/ ~IsNumber(b) THEN NaN ELSE IF Cmp(a, b) >= 0 THEN a ELSE b

\* Line 7.
clamp(n, min, max) == mathMax(min, mathMin(max, n))

\* Mutant of normalizeBodyFatPercent: 1 itself is taken as a percentage.
normalizeBodyFatPercentBelowOne(raw) ==
    IF ~IsNumber(raw) THEN raw
    ELSE IF Cmp(raw, Num(0)) > 0 /\ Cmp(raw, Num(1)) < 0 THEN Mul(raw, Num(100))
    ELSE raw

\* Lines 14-19.
normalizeBodyFatPercent(raw) ==
    IF ~IsNumber(raw) THEN raw
    ELSE IF Cmp(raw, Num(0)) > 0 /\ Cmp(raw, Num(1)) <= 0 THEN Mul(raw, Num(100))
    ELSE raw

\* The names of the schema's fields, lines 27-52.
OptionalNumbers ==
    {"heightInches", "heightCm", "weightLb", "weightKg", "bodyFatPercent",
     "activityPreset", "activityCustom", "dexaFatMassKg", "dexaLeanMassKg"}

NumbersWithDefault == {"cutDelta", "bulkDelta", "recompDelta", "bulkProteinGPerLb"}

SchemaFields ==
    {"unitSystem", "sex", "ageYears", "bodyFatMode", "activityUseCustom",
     "dexaEnabled"} \cup OptionalNumbers \cup NumbersWithDefault

\* The defaults of lines 44-48.
SchemaDefault(f) ==
    CASE f = "cutDelta" -> Num(-500)
      [] f = "bulkDelta" -> Num(500)
      [] f = "recompDelta" -> Num(-200)
      [] f = "bulkProteinGPerLb" -> Dec(10, 1)

\* Lines 26-52: the object the schema hands to superRefine and returns as data.
\* Keys the schema does not declare are dropped; a default replaces undefined.
objectData(v) ==
    [f \in SchemaFields |->
        IF f \in NumbersWithDefault /\ ~NotNull(v[f]) THEN SchemaDefault(f) ELSE v[f]]

IsInteger(x) == IsNumber(x) /\ Cmp(MathRound(x), x) = 0

\* Lines 26-52: the fields whose own type check fails.  A number field rejects
\* NaN; ageYears is required, whole and positive.
fieldIssues(val) ==
    {f \in OptionalNumbers : val[f].tag = "NaN"}
    \cup {f \in NumbersWithDefault : ~IsNumber(val[f])}
    \cup {f \in {"ageYears"} : ~(IsInteger(val[f]) /\ Sign(val[f].num) > 0)}

\* Mutant of MissingOrNotPositive: a selected field is never found missing.
NeverMissing(x) == FALSE

\* !x || x <= 0 of lines 57, 64, 72, 79.
MissingOrNotPositive(x) == ~Truthy(x) \/ Cmp(x, Num(0)) <= 0

\* x == null || !Number.isFinite(x) of lines 91, 101, 109.
MissingOrNotFinite(x) == ~IsNumber(x)

\* Lines 54-147: the paths superRefine adds an issue for.
refineIssues(val) ==
    {f \in {"heightInches", "weightLb"} :
        val.unitSystem = "us" /\ MissingOrNotPositive(val[f])}
    \cup {f \in {"heightCm", "weightKg"} :
              val.unitSystem # "us" /\ MissingOrNotPositive(val[f])}
    \cup {f \in {"bodyFatPercent"} :
              val.bodyFatMode = "known" /\ MissingOrNotFinite(val[f])}
    \cup {f \in {"activityCustom"} :
              val.activityUseCustom /\ MissingOrNotFinite(val[f])}
    \cup {f \in {"activityPreset"} :
              ~val.activityUseCustom /\ MissingOrNotFinite(val[f])}
    \cup {f \in {"dexaFatMassKg"} :
              /\ val.dexaEnabled
              /\ ~(IsNumber(val.dexaFatMassKg) /\ Cmp(val.dexaFatMassKg, Num(0)) > 0)
              /\ ~(IsNumber(val.dexaLeanMassKg)
                    /\ Cmp(val.dexaLeanMassKg, Num(0)) > 0)}
    \cup {f \in {"bulkProteinGPerLb"} :
              \/ ~IsNumber(val[f])
              \/ Cmp(val[f], Dec(7, 1)) < 0
              \/ Cmp(val[f], Dec(10, 1)) > 0}

\* profileFormSchema.safeParse(v), lines 25-147.
safeParse(v) ==
    LET data   == objectData(v)
        issues == IF fieldIssues(data) # {} THEN fieldIssues(data)
                  ELSE refineIssues(data)
    IN  [success |-> issues = {}, data |-> data, issues |-> issues]

\* Lines 154-205.
toProfileInput(v) ==
    LET bfPercent ==
            IF v.bodyFatMode = "known" /\ NotNull(v.bodyFatPercent)
            THEN normalizeBodyFatPercent(v.bodyFatPercent) ELSE Undefined
        normalizedBf ==
            IF NotNull(bfPercent) THEN clamp(bfPercent, Num(0), Num(80)) ELSE Undefined
    IN  [unitSystem |-> v.unitSystem,
         sex |-> v.sex,
         ageYears |-> v.ageYears,
         height |-> [inches |-> IF v.unitSystem = "us" THEN v.heightInches
                                ELSE Undefined,
                     cm |-> IF v.unitSystem = "metric" THEN v.heightCm ELSE Undefined],
         weight |-> [lb |-> IF v.unitSystem = "us" THEN v.weightLb ELSE Undefined,
                     kg |-> IF v.unitSystem = "metric" THEN v.weightKg ELSE Undefined],
         bodyFatMode |-> v.bodyFatMode,
         bodyFatPercent |-> normalizedBf,
         activity |-> [preset |-> IF v.activityUseCustom THEN Undefined
                                  ELSE v.activityPreset,
                       useCustom |-> v.activityUseCustom,
                       customMultiplier |-> IF v.activityUseCustom THEN v.activityCustom
                                            ELSE Undefined],
         deltas |-> [cut |-> v.cutDelta, bulk |-> v.bulkDelta, recomp |-> v.recompDelta],
         bulkProteinGPerLb |-> v.bulkProteinGPerLb,
         dexa |-> [enabled |-> v.dexaEnabled,
                   fatMassKg |-> IF v.dexaEnabled THEN v.dexaFatMassKg ELSE Undefined,
                   leanMassKg |-> IF v.dexaEnabled THEN v.dexaLeanMassKg
                                  ELSE Undefined]]

(***************************************************************************)
(* Form values handed to the schema.                                       *)
(***************************************************************************)
\* The fields a form keeps under height and weight, lines 36-37 of the form.
NoNested == [height |-> [inches |-> Undefined, cm |-> Undefined],
             weight |-> [lb |-> Undefined, kg |-> Undefined]]

HeightEntries ==
    {[heightInches |-> Num(70), heightCm |-> Undefined],
     [heightInches |-> Undefined, heightCm |-> Num(178)],
     [heightInches |-> Num(70), heightCm |-> Num(178)],
     [heightInches |-> Num(0), heightCm |-> Undefined]}

WeightEntries ==
    {[weightLb |-> Num(180), weightKg |-> Undefined],
     [weightLb |-> Undefined, weightKg |-> Num(80)],
     [weightLb |-> Num(180), weightKg |-> Num(80)]}

BodyFatEntries ==
    {Undefined, NaN, Num(0), Dec(2, 1), Num(1), Dec(15, 1), Num(20), Num(95), Num(-5)}

ActivityEntries ==
    {[activityPreset |-> Dec(155, 2), activityCustom |-> Undefined],
     [activityPreset |-> Undefined, activityCustom |-> Dec(14, 1)],
     [activityPreset |-> Dec(155, 2), activityCustom |-> Dec(14, 1)]}

DexaEntries ==
    {[dexaEnabled |-> FALSE, dexaFatMassKg |-> Num(15), dexaLeanMassKg |-> Num(60)],
     [dexaEnabled |-> TRUE, dexaFatMassKg |-> Num(15), dexaLeanMassKg |-> Undefined],
     [dexaEnabled |-> TRUE, dexaFatMassKg |-> Undefined, dexaLeanMassKg |-> Undefined]}

FormValues ==
    {[unitSystem |-> u, sex |-> "male", ageYears |-> Num(30),
      bodyFatMode |-> bm, bodyFatPercent |-> bf, activityUseCustom |-> uc,
      cutDelta |-> Undefined, bulkDelta |-> Num(500), recompDelta |-> Num(-200),
      bulkProteinGPerLb |-> Dec(10, 1)] @@ h @@ w @@ a @@ dx @@ NoNested :
        u \in UnitSystems, bm \in BodyFatModes, bf \in BodyFatEntries,
        uc \in BOOLEAN, h \in HeightEntries, w \in WeightEntries,
        a \in ActivityEntries, dx \in DexaEntries}

\* The schema and the conversion applied to form values: the body of the form's
\* watch callback, lines 71-75 of the form.
InitSchema ==
    /\ values \in FormValues
    /\ pc = "ready"
    /\ parsed = NoValue
    /\ input = NoValue
    /\ locals = NoValue
    /\ results = NoValue
    /\ log = <<>>
    /\ engine = NoValue

SafeParse ==
    /\ pc = "ready"
    /\ parsed' = safeParse(values)
    /\ pc' = "parsed"
    /\ UNCHANGED <<values, input, locals, results, log, engine>>

ToProfileInput ==
    /\ pc = "parsed"
    /\ parsed.success
    /\ input' = toProfileInput(parsed.data)
    /\ pc' = "converted"
    /\ UNCHANGED <<values, parsed, locals, results, log, engine>>

NextSchema == SafeParse \/ ToProfileInput

SpecSchema == InitSchema /\ [][NextSchema]_vars

(***************************************************************************)
(* The page: src/unnamed/part_001, importing calculateAll from             *)
(* src/lib/calcs.ts or from the engine of src/unnamed/part_002.            *)
(***************************************************************************)
Null == [tag |-> "null"]

\* The modules the import "@/lib/calcs" can resolve to: the stub of
\* src/lib/calcs.ts that throws, or the engine.
Engines == {"stub", "real"}

\* calculateAll as the page calls it: the outcome of the call.
importedCalculateAll(e, i) ==
    IF e = "stub" THEN [threw |-> TRUE, value |-> Null]
    ELSE [threw |-> FALSE, value |-> calculateAll(i)]

\* Lines 15-19: try { return ... } catch { return null }.
tryOrNull(outcome) == IF outcome.threw THEN Null ELSE outcome.value

\* A memo whose dependency list is empty: the first Results computed are kept.
useMemoWithoutDeps(e, i) ==
    IF i = Null THEN Null
    ELSE IF results # Null THEN results
    ELSE tryOrNull(importedCalculateAll(e, i))

\* Lines 13-20: the memo callback, run on every change of input.
useMemoResults(e, i) ==
    IF i = Null THEN Null ELSE tryOrNull(importedCalculateAll(e, i))

\* Lines 40-52: what the results section shows.
Rendered ==
    IF input = Null
    THEN [message |-> "Enter valid inputs to see results.", json |-> Null]
    ELSE IF results = Null
    THEN [message |-> "Calculation engine not implemented yet", json |-> Null]
    ELSE [message |-> "", json |-> results]

\* The inputs the page is handed.
PageInputs == CallInputs

\* The number of input changes of a run of the page.
MaxChanges == 2

InitPage ==
    /\ engine \in Engines
    /\ input = Null
    /\ results = Null
    /\ log = <<>>
    /\ pc = "rendered"
    /\ locals = NoValue
    /\ values = NoValue
    /\ parsed = NoValue

\* onChange, which is setInput (line 35): the state is replaced and the page
\* renders again, running the memo callback for the new input.
SetInput ==
    /\ Len(log) < MaxChanges
    /\ \E i \in PageInputs :
           /\ input' = i
           /\ \E r \in {useMemoResults(engine, i)} : results' = r
    /\ log' = Append(log, [input |-> input, results |-> results])
    /\ UNCHANGED <<pc, locals, values, parsed, engine>>

NextPage == SetInput

SpecPage == InitPage /\ [][NextPage]_vars

(***************************************************************************)
(* The form: src/unnamed/part_000, mounted by the page with onChange =     *)
(* setInput and no initialValues.                                          *)
(***************************************************************************)
\* Lines 32-56: defaultValues.  A key the object does not have reads as
\* undefined.
DefaultValues ==
    [unitSystem |-> "us", sex |-> "male", ageYears |-> Num(30),
     height |-> [inches |-> Num(70), cm |-> Undefined],
     weight |-> [lb |-> Num(180), kg |-> Undefined],
     heightInches |-> Undefined, heightCm |-> Undefined,
     weightLb |-> Undefined, weightKg |-> Undefined,
     bodyFatMode |-> "unknown", bodyFatPercent |-> Undefined,
     activityPreset |-> Dec(155, 2), activityUseCustom |-> FALSE,
     activityCustom |-> Undefined,
     cutDelta |-> Num(-500), bulkDelta |-> Num(500), recompDelta |-> Num(-200),
     bulkProteinGPerLb |-> Dec(10, 1),
     dexaEnabled |-> FALSE, dexaFatMassKg |-> Undefined, dexaLeanMassKg |-> Undefined]

\* The value of the field registered under a name: register("height.inches")
\* keeps its value at values.height.inches.
setValue(v, name, x) ==
    CASE name = "height.inches" -> [v EXCEPT !.height.inches = x]
      [] name = "height.cm"     -> [v EXCEPT !.height.cm = x]
      [] name = "weight.lb"     -> [v EXCEPT !.weight.lb = x]
      [] name = "weight.kg"     -> [v EXCEPT !.weight.kg = x]
      [] OTHER                  -> [v EXCEPT ![name] = x]

\* Lines 82-92: the effect run when unitSystem has changed (and at mount): the
\* form values after its first and after its second setValue.
clearOtherUnits(v) ==
    IF v.unitSystem = "us"
    THEN <<setValue(v, "height.cm", Undefined),
           setValue(setValue(v, "height.cm", Undefined), "weight.kg", Undefined)>>
    ELSE <<setValue(v, "height.inches", Undefined),
           setValue(setValue(v, "height.inches", Undefined), "weight.lb", Undefined)>>

\* Lines 70-76: the watch callback run for each form value of a sequence; the
\* arguments of the onChange calls it makes.
RECURSIVE onChangeCalls(_)
onChangeCalls(seq) ==
    IF seq = <<>> THEN <<>>
    ELSE LET p == safeParse(Head(seq))
         IN  (IF p.success THEN <<toProfileInput(p.data)>> ELSE <<>>)
             \o onChangeCalls(Tail(seq))

\* Number(normalized.toFixed(1)), line 227.
toFixed1(x) == Rat(MathRound(Mul(x, Num(10))).num, 1, 0, 0)

\* The form values after a change of one rendered input (lines 114-383) to a
\* value a user gives it; an emptied number input holds NaN.
FieldChanges(v) ==
    {setValue(v, "unitSystem", u) : u \in UnitSystems}
    \cup {setValue(v, "sex", x) : x \in Sexes}
    \cup {setValue(v, "ageYears", x) : x \in {Num(30), Num(45)}}
    \cup {setValue(v, "height.inches", x) :
              x \in IF v.unitSystem = "us" THEN {Num(70), NaN} ELSE {}}
    \cup {setValue(v, "weight.lb", x) :
              x \in IF v.unitSystem = "us" THEN {Num(180)} ELSE {}}
    \cup {setValue(v, "height.cm", x) :
              x \in IF v.unitSystem = "us" THEN {} ELSE {Num(178)}}
    \cup {setValue(v, "weight.kg", x) :
              x \in IF v.unitSystem = "us" THEN {} ELSE {Num(80)}}
    \cup {setValue(v, "bodyFatMode", x) : x \in BodyFatModes}
    \cup {setValue(v, "bodyFatPercent", x) :
              x \in IF v.bodyFatMode = "known" THEN {Num(20), Dec(2, 1)} ELSE {}}
    \cup {setValue(v, "dexaEnabled", x) : x \in BOOLEAN}
    \cup {setValue(v, "activityUseCustom", x) : x \in BOOLEAN}
    \cup {setValue(v, "activityCustom", x) :
              x \in IF v.activityUseCustom THEN {Dec(14, 1)} ELSE {}}

\* The onChange calls of one event, onChange being the page's setInput: the
\* page's input is the argument of the last call.  The page's rendering of it
\* is the subject of SpecPage.
CallOnChange(calls) ==
    /\ log' = calls
    /\ input' = IF calls = <<>> THEN input ELSE calls[Len(calls)]

\* The form after mounting: the watch callback has run for the two setValue
\* calls of the unit effect.
InitForm ==
    /\ values = DefaultValues
    /\ log = onChangeCalls(clearOtherUnits(DefaultValues))
    /\ input = IF log = <<>> THEN Null ELSE log[Len(log)]
    /\ parsed = safeParse(DefaultValues)
    /\ pc = "mounted"
    /\ locals = NoValue
    /\ results = NoValue
    /\ engine = NoValue

\* A change event of a rendered input: the field's value is stored, the watch
\* callback runs, and when unitSystem has changed the unit effect clears the
\* other system's fields, the callback running after each setValue.
ChangeField ==
    /\ \E v \in FieldChanges(values) :
         \E seq \in {IF v.unitSystem # values.unitSystem
                      THEN <<v>> \o clearOtherUnits(v) ELSE <<v>>} :
            /\ values' = seq[Len(seq)]
            /\ parsed' = safeParse(seq[Len(seq)])
            /\ CallOnChange(onChangeCalls(seq))
    /\ pc' = "changed"
    /\ UNCHANGED <<locals, results, engine>>

\* Lines 222-233: leaving the body-fat input with a fraction in it replaces the
\* value by the percentage, and the watch callback runs.
BlurBodyFatPercent ==
    /\ values.bodyFatMode = "known"
    /\ IsNumber(values.bodyFatPercent)
    /\ Cmp(normalizeBodyFatPercent(values.bodyFatPercent), values.bodyFatPercent) # 0
    /\ \E v \in {setValue(values, "bodyFatPercent",
                           toFixed1(normalizeBodyFatPercent(values.bodyFatPercent)))} :
            /\ values' = v
            /\ parsed' = safeParse(v)
            /\ CallOnChange(onChangeCalls(<<v>>))
    /\ pc' = "changed"
    /\ UNCHANGED <<locals, results, engine>>

NextForm == ChangeField \/ BlurBodyFatPercent

SpecForm == InitForm /\ [][NextForm]_vars

IsPositive(x) == IsNumber(x) /\ Sign(x.num) > 0

InRange(x, lo, hi) == IsNumber(x) /\ Cmp(lo, x) <= 0 /\ Cmp(x, hi) <= 0

ValidProfileInput(i) ==
    /\ IsPositive(IF i.unitSystem = "us" THEN i.height.inches ELSE i.height.cm)
    /\ IsPositive(IF i.unitSystem = "us" THEN i.weight.lb ELSE i.weight.kg)
    /\ IsPositive(i.ageYears)
    /\ i.bodyFatMode = "known" => InRange(i.bodyFatPercent, Num(0), Num(80))
    /\ IsNumber(IF i.activity.useCustom THEN i.activity.customMultiplier
                ELSE i.activity.preset)
    /\ i.dexa.enabled => IsPositive(i.dexa.fatMassKg) \/ IsPositive(i.dexa.leanMassKg)
    /\ InRange(i.bulkProteinGPerLb, Dec(7, 1), Dec(10, 1))

Returned == pc = "returned"

Absent(x) == ~NotNull(x)

(***************************************************************************)
(* Claims.                                                                 *)
(***************************************************************************)

\* The quantities the claims speak of, written from the claims' words over the
\* call's resolved lean mass, unrounded Mifflin and Revised Harris-Benedict
\* values and pound weight.
UnroundedBmr ==
    IF input.bodyFatMode = "known" /\ NotNull(locals.leanMassKg)
    THEN Add(Num(370), Mul(Dec(216, 1), locals.leanMassKg))
    ELSE Div(Add(locals.mifflin, locals.revisedHarrisBenedict), Num(2))

SelectedMultiplier ==
    IF input.activity.useCustom THEN input.activity.customMultiplier
    ELSE input.activity.preset

UnroundedTdee == Mul(UnroundedBmr, SelectedMultiplier)

GoalNames == {"maintenance", "cut", "recomp", "bulk"}

GoalBase(g) ==
    CASE g = "maintenance" -> UnroundedTdee
      [] g = "cut"         -> Add(UnroundedTdee, input.deltas.cut)
      [] g = "recomp"      -> Add(UnroundedTdee, input.deltas.recomp)
      [] g = "bulk"        -> Add(UnroundedTdee, input.deltas.bulk)

GoalProtein(g) ==
    IF g = "bulk" THEN Mul(locals.weightLb, input.bulkProteinGPerLb)
    ELSE locals.weightLb

GoalFraction(g) ==
    CASE g = "maintenance" -> Dec(25, 2)
      [] g = "cut"         -> Dec(25, 2)
      [] g = "recomp"      -> Dec(20, 2)
      [] g = "bulk"        -> Dec(30, 2)

GoalFatG(g) == Div(Mul(GoalBase(g), GoalFraction(g)), Num(9))

GoalRemaining(g) ==
    Sub(Sub(GoalBase(g), Mul(Num(4), GoalProtein(g))), Mul(Num(9), GoalFatG(g)))

IsNegative(x) == IsNumber(x) /\ Sign(x.num) < 0

\* C1: for every valid input the returned recommendedBmr is the rounded
\* Katch-McArdle value 370 + 21.6 * leanMassKg exactly when bodyFatMode is "known"
\* and lean mass was resolved, and otherwise (also for a DEXA lean mass with
\* bodyFatMode "unknown") the rounded mean of the unrounded Mifflin and Revised
\* Harris-Benedict values.
C1_RecommendedBmr ==
    (Returned /\ ValidProfileInput(input)) =>
        results.bmr.recommendedBmr = MathRound(UnroundedBmr)

\* A DEXA lean mass with bodyFatMode "unknown": the mean is returned, and it is
\* not the Katch-McArdle value.
C1_Witness ==
    /\ Returned /\ ValidProfileInput(input)
    /\ input.bodyFatMode = "unknown" /\ input.dexa.enabled
    /\ IsNumber(locals.leanMassKg)
    /\ results.bmr.recommendedBmr =
           MathRound(Div(Add(locals.mifflin, locals.revisedHarrisBenedict), Num(2)))
    /\ results.bmr.recommendedBmr # MathRound(locals.katchMcArdle)

\* C2: for every input, nelson and muller are present in the returned
\* methods if and only if both fat and lean mass were resolved, and katchMcArdle
\* is present if and only if lean mass was resolved.
C2_MethodsPresentIffResolved ==
    Returned =>
        /\ NotNull(results.bmr.methods.nelson)
              <=> (NotNull(locals.fatMassKg) /\ NotNull(locals.leanMassKg))
        /\ NotNull(results.bmr.methods.muller)
              <=> (NotNull(locals.fatMassKg) /\ NotNull(locals.leanMassKg))
        /\ NotNull(results.bmr.methods.katchMcArdle) <=> NotNull(locals.leanMassKg)

\* A schema-valid DEXA record whose Nelson value 25.8 * lean + 4.04 * fat is
\* exactly 0: both masses are resolved, Nelson is computed, and it is reported
\* absent.
C2_Witness ==
    /\ Returned /\ ValidProfileInput(input)
    /\ NotNull(locals.fatMassKg) /\ NotNull(locals.leanMassKg)
    /\ locals.nelson = Add(Mul(Dec(258, 1), locals.leanMassKg),
                           Mul(Dec(404, 2), locals.fatMassKg))
    /\ Sign(locals.nelson.num) = 0
    /\ Absent(results.bmr.methods.nelson)
    /\ NotNull(results.bmr.methods.muller)

\* C3: for every input with dexa.enabled and both DEXA masses supplied
\* (a supplied 0 included), the resolved fat and lean mass are exactly the two
\* supplied values, whatever bodyFatMode and bodyFatPercent are.
C3_DexaMassesUsedDirectly ==
    (/\ Returned
     /\ input.dexa.enabled
     /\ NotNull(input.dexa.fatMassKg) /\ NotNull(input.dexa.leanMassKg)) =>
        /\ locals.fatMassKg = input.dexa.fatMassKg
        /\ locals.leanMassKg = input.dexa.leanMassKg

\* A schema-valid input with DEXA fat mass 0 and lean mass 50, bodyFatMode
\* "known" and bodyFatPercent 20: the lean mass used is not the supplied 50 but
\* the one derived from the percentage.
C3_Witness ==
    /\ Returned /\ ValidProfileInput(input)
    /\ input.dexa = [enabled |-> TRUE, fatMassKg |-> Num(0), leanMassKg |-> Num(50)]
    /\ input.bodyFatMode = "known" /\ input.bodyFatPercent = Num(20)
    /\ locals.leanMassKg # Num(50)
    /\ locals.leanMassKg = Sub(locals.weightKg, locals.fatMassKg)
    /\ locals.fatMassKg = Mul(locals.weightKg, Div(Num(20), Num(100)))

C5_SingleDexaMassResolvesNothing ==
    (/\ Returned
     /\ ~(/\ input.dexa.enabled
          /\ NotNull(input.dexa.fatMassKg) /\ NotNull(input.dexa.leanMassKg))
     /\ ~(input.bodyFatMode = "known" /\ NotNull(input.bodyFatPercent))) =>
        /\ Absent(locals.fatMassKg) /\ Absent(locals.leanMassKg)
        /\ Absent(results.bmr.methods.katchMcArdle)
        /\ Absent(results.bmr.methods.nelson)
        /\ Absent(results.bmr.methods.muller)

\* C5 as amended: when it is not the case that bodyFatMode is "known" with
\* bodyFatPercent present, each mass is the DEXA value when DEXA is enabled and
\* undefined otherwise (a single DEXA mass is kept); when both are undefined all
\* three methods are absent, and unless both are supplied nelson and muller are
\* absent.
C5_ResolutionFallback ==
    (Returned /\ ~(input.bodyFatMode = "known" /\ NotNull(input.bodyFatPercent))) =>
        /\ locals.fatMassKg =
              IF input.dexa.enabled THEN input.dexa.fatMassKg ELSE Undefined
        /\ locals.leanMassKg =
              IF input.dexa.enabled THEN input.dexa.leanMassKg ELSE Undefined
        /\ (Absent(locals.fatMassKg) /\ Absent(locals.leanMassKg)) =>
              /\ Absent(results.bmr.methods.katchMcArdle)
              /\ Absent(results.bmr.methods.nelson)
              /\ Absent(results.bmr.methods.muller)
        /\ (Absent(locals.fatMassKg) \/ Absent(locals.leanMassKg)) =>
              /\ Absent(results.bmr.methods.nelson)
              /\ Absent(results.bmr.methods.muller)

\* DEXA disabled though its record holds masses, bodyFatMode "unknown" with a
\* percentage present: nothing is resolved.
C5_Witness ==
    /\ Returned
    /\ ~input.dexa.enabled /\ NotNull(input.dexa.leanMassKg)
    /\ input.bodyFatMode = "unknown" /\ NotNull(input.bodyFatPercent)
    /\ Absent(locals.fatMassKg) /\ Absent(locals.leanMassKg)
    /\ Absent(results.bmr.methods.katchMcArdle)

\* C6: for every valid input the returned warnings hold only the literal
\* "Fat intake is below 50 g/day.", and their number is the number of goals whose
\* unrounded fat grams calories * fatFraction / 9 are strictly below 50 (so 0 to
\* 4, and a goal at exactly 50 adds nothing).
C6_Warnings ==
    (Returned /\ ValidProfileInput(input)) =>
        /\ \A i \in 1..Len(results.warnings) :
              results.warnings[i] = "Fat intake is below 50 g/day."
        /\ Len(results.warnings) =
              Cardinality({g \in GoalNames : Less(GoalFatG(g), Num(50))})

\* One goal at exactly 50 g of fat, another below 50: only the latter warns.
C6_Witness ==
    /\ Returned /\ ValidProfileInput(input)
    /\ Cmp(GoalFatG("cut"), Num(50)) = 0
    /\ Less(GoalFatG("maintenance"), Num(50))
    /\ ~Less(GoalFatG("bulk"), Num(50))
    /\ Len(results.warnings) \in 1..3

\* A field the call needs is absent from the input.
RequiredFieldMissing ==
    \/ Absent(IF input.unitSystem = "us" THEN input.height.inches
              ELSE input.height.cm)
    \/ Absent(IF input.unitSystem = "us" THEN input.weight.lb ELSE input.weight.kg)
    \/ Absent(SelectedMultiplier)

\* C7: if the height or weight field selected by unitSystem, or the activity
\* source selected by activity.useCustom, is absent, calculateAll fails and
\* returns no Results.
C7_FailsFast == RequiredFieldMissing => ~Returned

\* unitSystem "us" without weight.lb: a Results record is returned, with
\* not-a-number calories.
C7_Witness ==
    /\ Returned
    /\ input.unitSystem = "us" /\ Absent(input.weight.lb)
    /\ results.tdee = NaN
    /\ results.maintenance.calories = NaN

\* C8: for every valid input the returned tdee is round(B * m), B the unrounded
\* recommended BMR and m the multiplier selected by activity.useCustom; the other
\* multiplier has no effect.
C8_Tdee ==
    (Returned /\ ValidProfileInput(input)) =>
        results.tdee = MathRound(Mul(UnroundedBmr, SelectedMultiplier))

\* useCustom with both multipliers populated and different: the tdee is that of
\* the custom multiplier and not that of the preset.
C8_Witness ==
    /\ Returned /\ ValidProfileInput(input)
    /\ input.activity.useCustom
    /\ IsNumber(input.activity.preset)
    /\ input.activity.preset # input.activity.customMultiplier
    /\ results.tdee = MathRound(Mul(UnroundedBmr, input.activity.customMultiplier))
    /\ results.tdee # MathRound(Mul(UnroundedBmr, input.activity.preset))

\* C9: each goal's calories, proteinG and fatG are the rounded calorie base,
\* protein and base * fraction / 9 of its row: maintenance (T, weightLb, 0.25),
\* cut (T + deltas.cut, weightLb, 0.25), recomp (T + deltas.recomp, weightLb,
\* 0.20), bulk (T + deltas.bulk, weightLb * bulkProteinGPerLb, 0.30), T the
\* unrounded TDEE; the base is not clamped.
C9_GoalTable ==
    Returned =>
        \A g \in GoalNames :
            /\ results[g].calories = MathRound(GoalBase(g))
            /\ results[g].proteinG = MathRound(GoalProtein(g))
            /\ results[g].fatG = MathRound(GoalFatG(g))

\* A recomp delta below -TDEE: negative calories and fat grams are returned,
\* while bulk returns its own protein.
C9_Witness ==
    /\ Returned /\ ValidProfileInput(input)
    /\ IsNegative(GoalBase("recomp"))
    /\ IsNegative(results.recomp.calories)
    /\ IsNegative(results.recomp.fatG)
    /\ results.bulk.proteinG # results.maintenance.proteinG

\* C10 as claimed: for every goal, whenever protein and fat calories exceed the
\* calorie base the returned carbsG is negative.
C10_NegativeWheneverExceeded ==
    Returned =>
        \A g \in GoalNames :
            IsNegative(GoalRemaining(g)) => IsNegative(results[g].carbsG)

\* C10 as amended: for every goal carbsG is round((calories - 4 * proteinG -
\* 9 * fatG) / 4) of the unrounded values, never replaced by 0, and it is
\* negative whenever protein and fat calories exceed the base by more than 2
\* kcal.
C10_Carbs ==
    Returned =>
        \A g \in GoalNames :
            /\ results[g].carbsG = MathRound(Div(GoalRemaining(g), Num(4)))
            /\ Less(GoalRemaining(g), Num(-2)) => IsNegative(results[g].carbsG)

\* A goal whose protein and fat calories exceed its base by more than 2 kcal.
C10_Witness ==
    /\ Returned /\ ValidProfileInput(input)
    /\ \E g \in GoalNames :
          /\ Less(GoalRemaining(g), Num(-2))
          /\ IsNegative(results[g].carbsG)
          /\ IsPositive(results[g].calories)

\* The calories recomputed from a goal's rounded outputs, less its rounded
\* calories (the sum the results panel's reader can make).
GoalDrift(g) ==
    Sub(Add(Add(Mul(Num(4), results[g].proteinG), Mul(Num(9), results[g].fatG)),
            Mul(Num(4), results[g].carbsG)),
        results[g].calories)

\* C11 as claimed: for every valid input and every goal, 4 * proteinG + 9 * fatG
\* + 4 * carbsG of the rounded outputs differs from the rounded calories by at
\* most 2 kcal.
C11_DriftAtMostTwo ==
    (Returned /\ ValidProfileInput(input)) =>
        \A g \in GoalNames : InRange(GoalDrift(g), Num(-2), Num(2))

\* C11 as amended: the difference is at most 8 kcal (each of the four fields is
\* rounded on its own: up to 2 for protein, 4.5 for fat, 2 for carbohydrate and
\* 0.5 for the calories).
C11_DriftAtMostEight ==
    (Returned /\ ValidProfileInput(input)) =>
        \A g \in GoalNames : InRange(GoalDrift(g), Num(-8), Num(8))

\* A goal of a valid input whose recomputed calories are more than 2 kcal off.
C11_Witness ==
    /\ Returned /\ ValidProfileInput(input)
    /\ \E g \in GoalNames :
          /\ IsNumber(GoalDrift(g))
          /\ ~InRange(GoalDrift(g), Num(-2), Num(2))
          /\ InRange(GoalDrift(g), Num(-8), Num(8))

\* The input with every field that is not authoritative erased: the height and
\* weight of the unit system not selected, the activity source not selected,
\* bodyFatPercent under bodyFatMode "unknown", the DEXA masses of a disabled DEXA
\* record.  Two inputs differ only in such fields exactly when this maps them to
\* the same input.
AuthoritativeOnly(i) ==
    [i EXCEPT
       !.height = IF i.unitSystem = "us" THEN [@ EXCEPT !.cm = Undefined]
                  ELSE [@ EXCEPT !.inches = Undefined],
       !.weight = IF i.unitSystem = "us" THEN [@ EXCEPT !.kg = Undefined]
                  ELSE [@ EXCEPT !.lb = Undefined],
       !.activity = IF i.activity.useCustom THEN [@ EXCEPT !.preset = Undefined]
                    ELSE [@ EXCEPT !.customMultiplier = Undefined],
       !.bodyFatPercent = IF i.bodyFatMode = "unknown" THEN Undefined ELSE @,
       !.dexa = IF i.dexa.enabled THEN @
                ELSE [@ EXCEPT !.fatMassKg = Undefined, !.leanMassKg = Undefined]]

\* C12: inputs that differ only in fields that are not authoritative give
\* identical Results: the Results of every call are those of the input with the
\* non-authoritative fields erased.
C12_NonAuthoritativeIgnored ==
    Returned => results = calculateAll(AuthoritativeOnly(input))

\* A call whose input holds a weight in both unit systems, or both activity
\* sources, or a percentage under "unknown", or masses in a disabled DEXA record,
\* and returns numbers.
C12_Witness ==
    /\ Returned /\ ValidProfileInput(input)
    /\ input # AuthoritativeOnly(input)
    /\ IsNumber(results.tdee)
    /\ results = calculateAll(AuthoritativeOnly(input))

\* C13: over a sequence of calls each call's Results are a function of its own
\* input: a call returns what an earlier call with an equal input returned, and
\* its warnings are as many as its own goals below 50 g of fat, whatever the
\* earlier calls warned.
C13_CallsIndependent ==
    Returned =>
        /\ \A k \in 1..Len(log) :
              log[k].input = input => log[k].results = results
        /\ Len(results.warnings) =
              Cardinality({g \in GoalNames : Less(GoalFatG(g), Num(50))})

\* A second call with the input of the first, which had warnings.
C13_Witness ==
    /\ Returned
    /\ Len(log) = 1
    /\ log[1].input = input
    /\ Len(log[1].results.warnings) > 0
    /\ results = log[1].results

\* C14: a call of calculateAll leaves its argument, nested records included,
\* as it was before the call.
C14_ArgumentUnchanged ==
    [][(pc = "ready" /\ pc' = "returned") => input' = input]_vars

\* A call has returned that normalised a US weight and read a nested DEXA
\* record: the values it derived are in its locals, not in its argument.
C14_Witness ==
    /\ Returned
    /\ input.unitSystem = "us"
    /\ input.dexa.enabled
    /\ input.weight.kg = Undefined
    /\ IsNumber(locals.weightKg)

\* toProfileInput has returned.
Converted == pc = "converted"

\* C15: for form values that pass the schema, toProfileInput populates exactly
\* the height and weight fields of the selected unit system and exactly the
\* activity source selected by useCustom; the others are undefined.
C15_OnePopulatedPerPair ==
    Converted =>
        /\ input.unitSystem = "us" =>
              /\ IsNumber(input.height.inches) /\ IsNumber(input.weight.lb)
              /\ Absent(input.height.cm) /\ Absent(input.weight.kg)
        /\ input.unitSystem = "metric" =>
              /\ IsNumber(input.height.cm) /\ IsNumber(input.weight.kg)
              /\ Absent(input.height.inches) /\ Absent(input.weight.lb)
        /\ input.activity.useCustom =>
              /\ IsNumber(input.activity.customMultiplier)
              /\ Absent(input.activity.preset)
        /\ ~input.activity.useCustom =>
              /\ IsNumber(input.activity.preset)
              /\ Absent(input.activity.customMultiplier)

\* Form values with both fields of each pair and both activity sources entered
\* passed the schema and were converted.
C15_Witness ==
    /\ Converted
    /\ IsNumber(values.heightInches) /\ IsNumber(values.heightCm)
    /\ IsNumber(values.weightLb) /\ IsNumber(values.weightKg)
    /\ IsNumber(values.activityPreset) /\ IsNumber(values.activityCustom)
    /\ values.activityUseCustom
    /\ Absent(input.height.cm) /\ Absent(input.activity.preset)

\* The percentage the claim computes from the entered value.
EnteredAsPercent(entered) ==
    IF Cmp(entered, Num(0)) > 0 /\ Cmp(entered, Num(1)) <= 0
    THEN Mul(entered, Num(100)) ELSE entered

ClampedTo(n, lo, hi) ==
    IF Cmp(n, lo) < 0 THEN lo ELSE IF Cmp(n, hi) > 0 THEN hi ELSE n

\* C16: for form values that pass the schema, with bodyFatMode 'known' the
\* returned bodyFatPercent is a number in [0, 80] equal to the entered value,
\* taken as a fraction when in (0, 1], clamped to [0, 80]; with 'unknown' it is
\* undefined.
C16_BodyFatPercent ==
    Converted =>
        /\ input.bodyFatMode = "known" =>
              /\ InRange(input.bodyFatPercent, Num(0), Num(80))
              /\ Cmp(input.bodyFatPercent,
                     ClampedTo(EnteredAsPercent(values.bodyFatPercent),
                               Num(0), Num(80))) = 0
        /\ input.bodyFatMode = "unknown" => Absent(input.bodyFatPercent)

\* The entered value 1 was converted as the fraction 1 (100 %), clamped to 80.
C16_Witness ==
    /\ Converted
    /\ input.bodyFatMode = "known"
    /\ values.bodyFatPercent = Num(1)
    /\ Cmp(input.bodyFatPercent, Num(80)) = 0

\* C17: the page holds either the complete Results of the current input or no
\* Results: with no input it shows the prompt; with an input whose call returned
\* it holds and shows exactly that call's Results; with an input whose call
\* threw it holds null and shows the fallback message.  What it holds is never
\* the Results of an earlier input.
C17_CompleteOrNone ==
    /\ input = Null =>
          /\ results = Null
          /\ Rendered.message = "Enter valid inputs to see results."
    /\ (input # Null /\ engine = "real") =>
          /\ results = calculateAll(input)
          /\ Rendered = [message |-> "", json |-> calculateAll(input)]
    /\ (input # Null /\ engine = "stub") =>
          /\ results = Null
          /\ Rendered.message = "Calculation engine not implemented yet"
          /\ Rendered.json = Null

\* The input changed after Results had been shown for an earlier, different
\* input, and the page holds the Results of the new input.
C17_Witness ==
    /\ Len(log) = 2
    /\ engine = "real"
    /\ log[2].input # input
    /\ log[2].results # Null
    /\ results # log[2].results
    /\ results = calculateAll(input)

\* The form values as the rendered inputs show them: the height and weight
\* entered in the rendered inputs taken as the schema's height and weight.
AsEntered(v) ==
    [v EXCEPT !.heightInches = v.height.inches, !.heightCm = v.height.cm,
              !.weightLb = v.weight.lb, !.weightKg = v.weight.kg]

\* C18: after a field change that leaves in the rendered inputs values the
\* schema accepts, with US units, 70 in and 180 lb, the form has called
\* onChange with a ProfileInput whose height.inches is 70 and weight.lb is 180.
C18_OnChangeAfterChange ==
    (/\ pc = "changed"
     /\ values.unitSystem = "us"
     /\ values.height.inches = Num(70)
     /\ values.weight.lb = Num(180)
     /\ safeParse(AsEntered(values)).success)
    => /\ log # <<>>
       /\ input # Null
       /\ input.height.inches = Num(70)
       /\ input.weight.lb = Num(180)

\* Sex was changed to female with every other input at its default: the values
\* the form hands to the schema fail it, onChange was not called, and the page
\* still has no input.
C18_Witness ==
    /\ pc = "changed"
    /\ values = [DefaultValues EXCEPT !.sex = "female"]
    /\ safeParse(AsEntered(values)).success
    /\ ~parsed.success
    /\ parsed.issues = {"heightInches", "weightLb"}
    /\ log = <<>>
    /\ input = Null

====
